---- MODULE Spec2Model ----
(***************************************************************************)
(* Model of the product catalog backend (apps/shop): the nested write of   *)
(* a product's options and tags done by ProductSerializer on POST/PATCH,   *)
(* and the product endpoints of ProductViewSet.                            *)
(*                                                                         *)
(* Storage is four tables.  Rows are never re-numbered: a table is a       *)
(* sequence indexed by primary key, and a deleted row keeps its place      *)
(* with alive = FALSE (AutoField keys are not reused).                     *)
(*                                                                         *)
(* A request body is a record [name, has_options, option_set, has_tags,    *)
(* tag_set]: has_options / has_tags say whether the body carries the       *)
(* field, and name is Absent when the body carries no name.  An option     *)
(* spec is [pk, name, price] and a tag spec [pk, name]; pk = 0 stands for  *)
(* a spec that carries no pk.  Option names are sequences of characters    *)
(* so that str.strip() is computed, not assumed.                           *)
(***************************************************************************)
EXTENDS Integers, Sequences, FiniteSets, TLC

VARIABLES tags,          \* Tag table: pk -> name
          products,      \* Product table: pk -> [name, alive]
          options,       \* ProductOption table: pk -> [product, name, price, alive]
          product_tags,  \* Product<->Tag association rows: set of <<product pk, tag pk>>
          req,           \* the last request handled
          resp,          \* its response
          pre,           \* storage as it was when that request arrived
          nreq,          \* number of requests handled so far
          procs          \* the requests two server workers are handling at once

vars == <<tags, products, options, product_tags, req, resp, pre, nreq, procs>>

\* ---------------------------------------------------------------- bounds

\* Requests handled in one run.
MaxRequests == 2

\* Longest option_set / tag_set a request body carries.
MaxSpecs == 2

\* ---------------------------------------------------------------- inputs

Absent == "absent"

\* The pks an option spec carries: none, an option of product 1, an option of
\* product 2, a pk of no row.
OptionPks == {0, 1, 4, 99}

\* Submitted option specs: every pk with a name that strip() changes, and the
\* specs with a whitespace-only and with an empty name.
OptionSpecs ==
    [pk : OptionPks, name : {<<" ", "a">>}, price : {10}]
    \cup [pk : {0}, name : {<<" ">>, <<>>}, price : {10}]

\* no pk, the pk of the Tag "X", a pk of no row
TagPks == {0, 1, 99}

TagNames == {"X", "Y"}

\* a product that exists, another one, a pk of no row
ProductPks == {1, 2, 99}

TagSpecs == [pk : TagPks, name : TagNames]

SeqUpTo(S, n) == UNION {[1..k -> S] : k \in 0..n}

\* ---------------------------------------------------------------- storage

DB == [tags |-> tags, products |-> products, options |-> options,
       product_tags |-> product_tags]

TagPkSet(t) == 1..Len(t)

ProductExists(db, pk) == pk \in 1..Len(db.products) /\ db.products[pk].alive

OptionExists(opts, pk) == pk \in 1..Len(opts) /\ opts[pk].alive

OptionsOf(db, p) == {o \in 1..Len(db.options) :
                        db.options[o].alive /\ db.options[o].product = p}

TagsOf(db, p) == {t \in TagPkSet(db.tags) : <<p, t>> \in db.product_tags}

\* ---------------------------------------------------------------- validation

RECURSIVE LStrip(_)
LStrip(s) == IF s = <<>> THEN s
             ELSE IF Head(s) = " " THEN LStrip(Tail(s)) ELSE s

RECURSIVE RStrip(_)
RStrip(s) == IF s = <<>> THEN s
             ELSE IF s[Len(s)] = " " THEN RStrip(SubSeq(s, 1, Len(s) - 1)) ELSE s

\* str.strip()
Strip(s) == RStrip(LStrip(s))

\* Mutant of validate_name: rejects the empty name only, not the
\* whitespace-only one.
validate_name_empty_only(value) ==
    IF value = <<>>
    THEN [ok |-> FALSE, value |-> <<>>]
    ELSE [ok |-> TRUE, value |-> Strip(value)]

\* ProductOptionSerializer.validate_name: raises ValidationError (ok = FALSE)
\* or returns the stripped name.
validate_name(value) ==
    IF value = <<>> \/ Strip(value) = <<>>
    THEN [ok |-> FALSE, value |-> <<>>]
    ELSE [ok |-> TRUE, value |-> Strip(value)]

\* ProductOptionSerializer's validated data of one option spec.  pk is a
\* read-only field: it is not part of the validated data.
ProductOptionSerializer_to_internal_value(spec) ==
    [name |-> validate_name(spec.name).value, price |-> spec.price]

\* TagSerializer's validated data of one tag spec.  pk is a read-only field
\* (fields = ['pk', 'name'], read_only_fields = ['pk']): only name is kept.
TagSerializer_to_internal_value(spec) == [name |-> spec.name]

\* ProductSerializer.is_valid: every nested option spec validates.
is_valid(body) ==
    \A i \in 1..Len(body.option_set) : validate_name(body.option_set[i].name).ok

\* validated_data['tag_set'], when the body carries tag_set.
validated_tags(body) ==
    [i \in 1..Len(body.tag_set) |-> TagSerializer_to_internal_value(body.tag_set[i])]

\* ---------------------------------------------------------------- options

\* The pks the submitted option specs carry.
SubmittedPks(specs) == {specs[i].pk : i \in 1..Len(specs)} \ {0}

\* The nested write of option_set that super().create / super().update do:
\* the rows whose pk a spec carries are fetched first, by pk alone; then each
\* spec in order updates the fetched row of its pk (name, price and owner),
\* or, having no pk or the pk of no row, inserts a new row owned by the
\* product.  Returns the table and the pks of the rows written.
RECURSIVE save_options(_, _, _, _, _)
save_options(opts, fetched, product, specs, written) ==
    IF specs = <<>> THEN [options |-> opts, written |-> written]
    ELSE LET spec == Head(specs)
             data == ProductOptionSerializer_to_internal_value(spec)
             row  == [product |-> product, name |-> data.name,
                      price |-> data.price, alive |-> TRUE]
         IN IF spec.pk \in fetched
            THEN save_options([opts EXCEPT ![spec.pk] = row], fetched, product,
                              Tail(specs), written \cup {spec.pk})
            ELSE save_options(Append(opts, row), fetched, product,
                              Tail(specs), written \cup {Len(opts) + 1})

\* Mutant of delete_missing_options: nothing is deleted.
delete_missing_options_none(opts, product, keep) == opts

\* super().update's deletion of the product's options that the submitted
\* option_set does not name (neither by a pk it carries nor as a row it wrote).
delete_missing_options(opts, product, keep) ==
    [o \in 1..Len(opts) |->
        IF opts[o].alive /\ opts[o].product = product /\ o \notin keep
        THEN [opts[o] EXCEPT !.alive = FALSE] ELSE opts[o]]

\* Mutant of write_options: a body without option_set is written as if it
\* carried an empty one.
write_options_absent_as_empty(opts, product, has_options, option_set, is_update) ==
    LET fetched == {pk \in SubmittedPks(option_set) : OptionExists(opts, pk)}
        saved   == save_options(opts, fetched, product, option_set, {})
    IN IF is_update
       THEN delete_missing_options(saved.options, product,
                                   saved.written \cup SubmittedPks(option_set))
       ELSE saved.options

\* Option part of super().create (is_update = FALSE) and super().update.
write_options(opts, product, has_options, option_set, is_update) ==
    IF ~has_options THEN opts
    ELSE LET fetched == {pk \in SubmittedPks(option_set) : OptionExists(opts, pk)}
             saved   == save_options(opts, fetched, product, option_set, {})
         IN IF is_update
            THEN delete_missing_options(saved.options, product,
                                        saved.written \cup SubmittedPks(option_set))
            ELSE saved.options

\* ---------------------------------------------------------------- tags

\* Mutant of get_or_create: a row is inserted without looking the name up.
get_or_create_always_create(t, tag_name) ==
    [ok |-> TRUE, tags |-> Append(t, tag_name), pk |-> Len(t) + 1]

\* Tag.objects.get_or_create(name=tag_name): the row of that name, inserted
\* when there is none.  With several rows of the name the lookup raises
\* MultipleObjectsReturned (ok = FALSE), which no handler catches.
get_or_create(t, tag_name) ==
    LET found == {pk \in TagPkSet(t) : t[pk] = tag_name}
    IN IF found = {} THEN [ok |-> TRUE, tags |-> Append(t, tag_name), pk |-> Len(t) + 1]
       ELSE IF Cardinality(found) = 1
            THEN [ok |-> TRUE, tags |-> t, pk |-> CHOOSE pk \in found : TRUE]
            ELSE [ok |-> FALSE, tags |-> t, pk |-> 0]

\* Mutant of process_tags_loop: a Tag row is inserted for every spec, with
\* neither the seen-names check nor the lookup by name.
RECURSIVE process_tags_loop_create_each(_, _, _, _)
process_tags_loop_create_each(t, tags_data, tag_instances, processed_tag_names) ==
    IF tags_data = <<>>
    THEN [ok |-> TRUE, tags |-> t, tag_instances |-> tag_instances, status |-> 0]
    ELSE process_tags_loop_create_each(Append(t, Head(tags_data).name), Tail(tags_data),
                                       tag_instances \cup {Len(t) + 1},
                                       processed_tag_names)

\* The loop of ProductSerializer._process_tags over tags_data.  Returns
\* ok = FALSE when it raises, with the Tag table as the loop left it and the
\* status the exception is answered with: 400 for the ValidationError of a
\* pk of no Tag row, 500 for an exception of the lookup by name.
RECURSIVE process_tags_loop(_, _, _, _)
process_tags_loop(t, tags_data, tag_instances, processed_tag_names) ==
    IF tags_data = <<>>
    THEN [ok |-> TRUE, tags |-> t, tag_instances |-> tag_instances, status |-> 0]
    ELSE LET tag_data == Head(tags_data)
             rest     == Tail(tags_data)
         IN IF "name" \notin DOMAIN tag_data
            THEN process_tags_loop(t, rest, tag_instances, processed_tag_names)
            ELSE IF tag_data.name \in processed_tag_names
            THEN process_tags_loop(t, rest, tag_instances, processed_tag_names)
            ELSE IF "pk" \in DOMAIN tag_data /\ tag_data.pk # 0
            THEN IF tag_data.pk \in TagPkSet(t)
                 THEN process_tags_loop(t, rest, tag_instances \cup {tag_data.pk},
                                        processed_tag_names \cup {tag_data.name})
                 ELSE [ok |-> FALSE, tags |-> t, tag_instances |-> tag_instances,
                       status |-> 400]
            ELSE LET r == get_or_create(t, tag_data.name)
                 IN IF r.ok
                    THEN process_tags_loop(r.tags, rest, tag_instances \cup {r.pk},
                                           processed_tag_names \cup {tag_data.name})
                    ELSE [ok |-> FALSE, tags |-> t, tag_instances |-> tag_instances,
                          status |-> 500]

\* Mutant of set_tags: the tags are added to the association, not set.
set_tags_add(pt, product, tag_instances) ==
    pt \cup {<<product, tg>> : tg \in tag_instances}

\* product.tag_set.set(tag_instances)
set_tags(pt, product, tag_instances) ==
    {row \in pt : row[1] # product} \cup {<<product, tg>> : tg \in tag_instances}

\* Mutant of process_tags: the Tag rows the product was associated with are
\* deleted before the new ones are set (the table is cut at the first of them).
process_tags_delete_old(db, product, tags_data) ==
    LET old == TagsOf(db, product)
        cut == IF old = {} THEN db.tags
               ELSE SubSeq(db.tags, 1, (CHOOSE m \in old : \A k \in old : m <= k) - 1)
        r == process_tags_loop(cut, tags_data, {}, {})
    IN [ok |-> r.ok, status |-> r.status,
        db |-> [db EXCEPT !.tags = r.tags,
                          !.product_tags = set_tags(db.product_tags, product,
                                                    r.tag_instances)]]

\* ProductSerializer._process_tags(product, tags_data) on storage db.
process_tags(db, product, tags_data) ==
    LET r == process_tags_loop(db.tags, tags_data, {}, {})
    IN IF r.ok
       THEN [ok |-> TRUE, status |-> 0,
             db |-> [db EXCEPT !.tags = r.tags,
                               !.product_tags = set_tags(db.product_tags, product,
                                                         r.tag_instances)]]
       ELSE [ok |-> FALSE, status |-> r.status, db |-> [db EXCEPT !.tags = r.tags]]

\* ---------------------------------------------------------------- serializer

\* Whether a request that raised leaves nothing written (the request runs in
\* one transaction that is rolled back).
AtomicRequests == TRUE

\* ProductSerializer.create(validated_data) on storage db.
serializer_create(db, body) ==
    LET tags_data == IF body.has_tags THEN validated_tags(body) ELSE <<>>
        product   == Len(db.products) + 1
        db1 == [db EXCEPT !.products = Append(db.products,
                                              [name |-> body.name, alive |-> TRUE]),
                          !.options = write_options(db.options, product,
                                                    body.has_options,
                                                    body.option_set, FALSE)]
        r == process_tags(db1, product, tags_data)
    IN [ok |-> r.ok, status |-> r.status, db |-> r.db, pk |-> product]

\* ProductSerializer.update(instance, validated_data) on storage db.
serializer_update(db, instance, body) ==
    LET db1 == [db EXCEPT !.products[instance].name =
                              IF body.name = Absent THEN @ ELSE body.name,
                          !.options = write_options(db.options, instance,
                                                    body.has_options,
                                                    body.option_set, TRUE)]
    IN IF body.has_tags
       THEN LET r == process_tags(db1, instance, validated_tags(body))
            IN [ok |-> r.ok, status |-> r.status, db |-> r.db, pk |-> instance]
       ELSE [ok |-> TRUE, status |-> 0, db |-> db1, pk |-> instance]

\* ---------------------------------------------------------------- endpoints

NoBody == [name |-> Absent, has_options |-> FALSE, option_set |-> <<>>,
           has_tags |-> FALSE, tag_set |-> <<>>]

Store(db) ==
    /\ tags' = db.tags
    /\ products' = db.products
    /\ options' = db.options
    /\ product_tags' = db.product_tags

\* What every endpoint does around its handler: the request, the storage it
\* met and the response are recorded, and the handler's writes are stored.
Respond(request, status, pk, db) ==
    /\ nreq' = nreq + 1
    /\ req' = request
    /\ pre' = DB
    /\ resp' = [status |-> status, pk |-> pk]
    /\ Store(db)
    /\ UNCHANGED procs

\* The end of a create or update whose body was valid: the success status
\* with the serializer's writes, or the answer to the exception it raised,
\* with the writes rolled back when requests are atomic.
Finish(request, r, success) ==
    IF r.ok THEN Respond(request, success, r.pk, r.db)
    ELSE Respond(request, r.status, 0, IF AtomicRequests THEN DB ELSE r.db)

\* ProductViewSet.create: POST /products
create(body) ==
    LET request == [method |-> "POST", pk |-> 0, body |-> body]
    IN IF ~is_valid(body) THEN Respond(request, 400, 0, DB)
       ELSE Finish(request, serializer_create(DB, body), 201)

\* ProductViewSet.partial_update: PATCH /products/{pk}
partial_update(pk, body) ==
    LET request == [method |-> "PATCH", pk |-> pk, body |-> body]
    IN IF ~ProductExists(DB, pk) THEN Respond(request, 404, 0, DB)
       ELSE IF ~is_valid(body) THEN Respond(request, 400, 0, DB)
       ELSE Finish(request, serializer_update(DB, pk, body), 200)

\* The rows a product's deletion removes with it: the product, the options
\* it owns and its tag association rows.  Tag rows stay.
delete_product(db, pk) ==
    [db EXCEPT !.products[pk].alive = FALSE,
               !.options = [o \in 1..Len(db.options) |->
                               IF db.options[o].product = pk
                               THEN [db.options[o] EXCEPT !.alive = FALSE]
                               ELSE db.options[o]],
               !.product_tags = {row \in db.product_tags : row[1] # pk}]

\* Mutant of destroy: the product row and its association rows are deleted,
\* the options it owned stay.
destroy_no_cascade(pk) ==
    LET request == [method |-> "DELETE", pk |-> pk, body |-> NoBody]
    IN IF ~ProductExists(DB, pk) THEN Respond(request, 404, 0, DB)
       ELSE Respond(request, 204, pk,
                    [DB EXCEPT !.products[pk].alive = FALSE,
                               !.product_tags = {row \in DB.product_tags : row[1] # pk}])

\* ProductViewSet.destroy: DELETE /products/{pk}
destroy(pk) ==
    LET request == [method |-> "DELETE", pk |-> pk, body |-> NoBody]
    IN IF ~ProductExists(DB, pk) THEN Respond(request, 404, 0, DB)
       ELSE Respond(request, 204, pk, delete_product(DB, pk))

\* ProductViewSet.retrieve: GET /products/{pk}
retrieve(pk) ==
    LET request == [method |-> "GET", pk |-> pk, body |-> NoBody]
    IN IF ~ProductExists(DB, pk) THEN Respond(request, 404, 0, DB)
       ELSE Respond(request, 200, pk, DB)

\* ProductViewSet.list: GET /products
list ==
    Respond([method |-> "LIST", pk |-> 0, body |-> NoBody], 200, 0, DB)

\* ---------------------------------------------------------------- requests

\* The name a request gives a product.
NewName == "Q"

\* Bodies whose weight is in tag_set.
TagBodies ==
    {[name |-> n, has_options |-> FALSE, option_set |-> <<>>,
      has_tags |-> TRUE, tag_set |-> ts] :
        n \in {Absent, NewName}, ts \in SeqUpTo(TagSpecs, MaxSpecs)}

\* Bodies whose weight is in option_set, with no tag_set or a one-spec one.
OptionBodies ==
    {[name |-> Absent, has_options |-> TRUE, option_set |-> os,
      has_tags |-> ts # <<>>, tag_set |-> ts] :
        os \in SeqUpTo(OptionSpecs, MaxSpecs),
        ts \in {<<>>, <<[pk |-> 0, name |-> "Y"]>>}}

\* Bodies that carry only a name, or nothing.
ScalarBodies == {[NoBody EXCEPT !.name = n] : n \in {Absent, NewName}}

Bodies == TagBodies \cup OptionBodies \cup ScalarBodies

\* A POST body carries the product's name.
PostBodies == {[b EXCEPT !.name = NewName] : b \in Bodies}

\* PATCH /products/{pk}: product 1 with every body; product 2 and a pk of no
\* product with the bodies that carry no nested field.
PatchRequests == ({1} \X Bodies) \cup ({2, 99} \X ScalarBodies)

\* ---------------------------------------------------------------- workers

\* The server workers that handle requests at the same time.
Procs == {"w1", "w2"}

\* A worker with no request.  phase is where the worker stands in the
\* serializer: "loop" at the head of the loop of _process_tags, "insert"
\* between the lookup and the insert of get_or_create, "done" after the
\* response, "failed" after an exception.  created holds the pks of the Tag
\* rows the request inserted.
NoProc == [phase |-> "idle", product |-> 0, tags_data |-> <<>>,
           tag_instances |-> {}, processed_tag_names |-> {}, created |-> {},
           status |-> 0]

\* The create and update requests the workers are given: a tag_set of specs
\* without pk.
RaceRequests ==
    {[method |-> m, pk |-> pk, body |-> b] :
        m \in {"POST", "PATCH"}, pk \in {0, 1, 2},
        b \in {tb \in TagBodies : \A i \in 1..Len(tb.tag_set) : tb.tag_set[i].pk = 0}}

\* The Tag rows a worker's queries see: with atomic requests, not the rows
\* another request inserted and has not committed (a failed request's rows
\* are rolled back and never seen).
visible_tags(p) ==
    {pk \in TagPkSet(tags) :
        AtomicRequests =>
            \A q \in Procs \ {p} : pk \in procs[q].created => procs[q].phase = "done"}

\* The lookup of get_or_create: self.get(name=tag_name) among the rows seen.
lookup_tag(t, seen, tag_name) == {pk \in seen : t[pk] = tag_name}

\* Mutant of insert_tag: the insert gives way to a row of the name that is
\* already stored (insert-or-fetch over a unique name).
insert_tag_or_fetch(t, tag_name) ==
    IF \E pk \in TagPkSet(t) : t[pk] = tag_name
    THEN [tags |-> t, pk |-> CHOOSE pk \in TagPkSet(t) : t[pk] = tag_name]
    ELSE [tags |-> Append(t, tag_name), pk |-> Len(t) + 1]

\* The insert of get_or_create: self.create(name=tag_name), done when the
\* lookup found no row.  No constraint of the table looks at the name.
insert_tag(t, tag_name) ==
    [tags |-> Append(t, tag_name), pk |-> Len(t) + 1]

\* A worker takes a request: the serializer pops tag_set, writes the
\* product's own fields (super().create / super().update) and enters
\* _process_tags.
BeginRequest ==
    \E p \in Procs, r \in RaceRequests :
        /\ procs[p].phase = "idle"
        /\ IF r.method = "POST" THEN r.pk = 0 /\ r.body.name = NewName
                                ELSE r.pk # 0 /\ r.body.name = Absent
        /\ LET body == [r.body EXCEPT !.has_tags = FALSE]
               w == IF r.method = "POST" THEN serializer_create(DB, body)
                                         ELSE serializer_update(DB, r.pk, body)
           IN /\ products' = w.db.products
              /\ options' = w.db.options
              /\ procs' = [procs EXCEPT ![p] =
                              [NoProc EXCEPT !.phase = "loop", !.product = w.pk,
                                             !.tags_data = validated_tags(r.body)]]
        /\ UNCHANGED <<tags, product_tags, req, resp, pre, nreq>>

\* One turn of the loop of _process_tags up to the lookup of get_or_create:
\* a name already processed is skipped, a name found is taken, a name not
\* found leaves the worker before the insert.
LookupTag ==
    \E p \in Procs :
        /\ procs[p].phase = "loop"
        /\ procs[p].tags_data # <<>>
        /\ LET tag_name == Head(procs[p].tags_data).name
               found == lookup_tag(tags, visible_tags(p), tag_name)
           IN procs' = [procs EXCEPT ![p] =
                IF tag_name \in @.processed_tag_names
                THEN [@ EXCEPT !.tags_data = Tail(@)]
                ELSE IF found = {} THEN [@ EXCEPT !.phase = "insert"]
                ELSE IF Cardinality(found) = 1
                THEN [@ EXCEPT !.tags_data = Tail(@),
                               !.tag_instances = @ \cup found,
                               !.processed_tag_names = @ \cup {tag_name}]
                ELSE [@ EXCEPT !.phase = "failed", !.status = 500]]
        /\ UNCHANGED <<tags, products, options, product_tags, req, resp, pre, nreq>>

\* The insert that follows a lookup that found nothing.
InsertTag ==
    \E p \in Procs :
        /\ procs[p].phase = "insert"
        /\ LET tag_name == Head(procs[p].tags_data).name
               r == insert_tag(tags, tag_name)
           IN /\ tags' = r.tags
              /\ procs' = [procs EXCEPT ![p] =
                    [@ EXCEPT !.phase = "loop",
                              !.tags_data = Tail(@),
                              !.tag_instances = @ \cup {r.pk},
                              !.processed_tag_names = @ \cup {tag_name},
                              !.created = @ \cup {r.pk}]]
        /\ UNCHANGED <<products, options, product_tags, req, resp, pre, nreq>>

\* After the loop: product.tag_set.set(tag_instances), and the request is
\* answered.
SetTags ==
    \E p \in Procs :
        /\ procs[p].phase = "loop"
        /\ procs[p].tags_data = <<>>
        /\ product_tags' = set_tags(product_tags, procs[p].product,
                                    procs[p].tag_instances)
        /\ procs' = [procs EXCEPT ![p] = [@ EXCEPT !.phase = "done", !.status = 200]]
        /\ UNCHANGED <<tags, products, options, req, resp, pre, nreq>>

NextC == BeginRequest \/ LookupTag \/ InsertTag \/ SetTags

\* ---------------------------------------------------------------- behaviour

\* The store the requests meet: the Tag "X"; product 1 "P" with options 1, 2
\* and 3 and the tag "X"; product 2 "P" with option 4 and no tag.
Init ==
    /\ tags = <<"X">>
    /\ products = <<[name |-> "P", alive |-> TRUE], [name |-> "P", alive |-> TRUE]>>
    /\ options = <<[product |-> 1, name |-> <<"o", "1">>, price |-> 30, alive |-> TRUE],
                   [product |-> 1, name |-> <<"o", "2">>, price |-> 30, alive |-> TRUE],
                   [product |-> 1, name |-> <<"o", "3">>, price |-> 30, alive |-> TRUE],
                   [product |-> 2, name |-> <<"o", "4">>, price |-> 30, alive |-> TRUE]>>
    /\ product_tags = {<<1, 1>>}
    /\ req = [method |-> "NONE", pk |-> 0, body |-> NoBody]
    /\ resp = [status |-> 0, pk |-> 0]
    /\ pre = [tags |-> tags, products |-> products, options |-> options,
              product_tags |-> product_tags]
    /\ nreq = 0
    /\ procs = [p \in Procs |-> NoProc]

NoRequest == [method |-> "NONE", pk |-> 0, body |-> NoBody]

\* The server takes a request when none is being answered.
Idle == req = NoRequest /\ nreq < MaxRequests

Create == Idle /\ \E body \in PostBodies : create(body)

PartialUpdate == Idle /\ \E r \in PatchRequests : partial_update(r[1], r[2])

Destroy == Idle /\ \E pk \in ProductPks : destroy(pk)

Retrieve == Idle /\ \E pk \in ProductPks : retrieve(pk)

List == Idle /\ list

\* The response is sent: the request/response cycle is over.
Return ==
    /\ req # NoRequest
    /\ req' = NoRequest
    /\ resp' = [status |-> 0, pk |-> 0]
    /\ pre' = DB
    /\ UNCHANGED <<tags, products, options, product_tags, nreq, procs>>

Next == Create \/ PartialUpdate \/ Destroy \/ Retrieve \/ List \/ Return

Spec == Init /\ [][Next]_vars

\* Two workers handling one create or update each, statement by statement.
SpecC == Init /\ [][NextC]_vars

\* ---------------------------------------------------------------- claims

\* The last request was a create or an update.
IsWrite == req.method \in {"POST", "PATCH"}

\* ... and it succeeded.
Succeeded == IsWrite /\ resp.status \in {200, 201}

SubmittedTags == req.body.tag_set

SubmittedOptions == req.body.option_set

\* The Tag rows of a name.
TagsNamed(t, n) == {pk \in TagPkSet(t) : t[pk] = n}

\* The last request's tag_set holds a spec with a pk that matched no Tag row.
CarriesMissingTagId ==
    /\ IsWrite
    /\ req.body.has_tags
    /\ \E i \in 1..Len(SubmittedTags) :
          SubmittedTags[i].pk # 0 /\ SubmittedTags[i].pk \notin TagPkSet(pre.tags)

\* The last request's option_set holds a spec whose name is empty or
\* whitespace-only.
CarriesBlankOptionName ==
    /\ IsWrite
    /\ req.body.has_options
    /\ \E i \in 1..Len(SubmittedOptions) :
          \A k \in 1..Len(SubmittedOptions[i].name) : SubmittedOptions[i].name[k] = " "

\* The request was addressed to the collection or to a product that exists.
Addressed == req.method = "POST" \/ ProductExists(pre, req.pk)

C2_MissingTagIdIsRejected == CarriesMissingTagId => resp.status \in {400, 404}

\* C3: a create or update (of a product that exists) with an option spec whose
\* name is empty or whitespace-only returns 400 and leaves storage unchanged:
\* no Product, ProductOption or Tag row and no association is written.
C3_BlankOptionNameRejected ==
    (CarriesBlankOptionName /\ Addressed) => (resp.status = 400 /\ DB = pre)

C3_Witness ==
    /\ CarriesBlankOptionName /\ Addressed
    /\ req.body.has_tags /\ SubmittedTags # <<>>
    /\ Len(SubmittedOptions) > 1
    /\ resp.status = 400

\* The names that several no-id specs of the last request share and that no
\* Tag row had before.
RepeatedNewNames ==
    {n \in TagNames :
        /\ TagsNamed(pre.tags, n) = {}
        /\ \E i, j \in 1..Len(SubmittedTags) :
              /\ i # j
              /\ SubmittedTags[i] = [pk |-> 0, name |-> n]
              /\ SubmittedTags[j] = [pk |-> 0, name |-> n]}

\* C4: within one successful request, no-id tag specs that share a name no Tag
\* row had before create exactly one Tag row, and the product is associated
\* with that row.
C4_RepeatedNewNameCreatesOneTag ==
    (Succeeded /\ req.body.has_tags) =>
        \A n \in RepeatedNewNames :
            /\ Cardinality(TagsNamed(tags, n)) = 1
            /\ TagsNamed(tags, n) \subseteq TagsOf(DB, resp.pk)

C4_Witness ==
    /\ Succeeded /\ req.body.has_tags
    /\ RepeatedNewNames # {}
    /\ Len(tags) = Len(pre.tags) + 1

\* C5: requests run one after another keep Tag names pairwise distinct: a
\* no-id tag spec inserts a Tag row only when no row has its name, and
\* otherwise the existing row is the one associated.
C5_TagNamesDistinct ==
    /\ \A i, j \in TagPkSet(tags) : tags[i] = tags[j] => i = j
    /\ \A pk \in TagPkSet(tags) \ TagPkSet(pre.tags) : TagsNamed(pre.tags, tags[pk]) = {}
    /\ (Succeeded /\ req.body.has_tags) =>
          \A i \in 1..Len(SubmittedTags) :
              (SubmittedTags[i].pk = 0 /\ TagsNamed(pre.tags, SubmittedTags[i].name) # {})
                  => TagsNamed(pre.tags, SubmittedTags[i].name) \subseteq TagsOf(DB, resp.pk)

\* A second request reused the Tag row that the first one created.
C5_Witness ==
    /\ nreq = 2
    /\ Succeeded /\ req.body.has_tags
    /\ Len(pre.tags) = 2 /\ Len(tags) = 2
    /\ \E i \in 1..Len(SubmittedTags) : SubmittedTags[i] = [pk |-> 0, name |-> pre.tags[2]]

\* The specs of the last request's tag_set that are the first of their name.
FirstOfName == {i \in 1..Len(SubmittedTags) :
                   \A j \in 1..(i - 1) : SubmittedTags[j].name # SubmittedTags[i].name}

\* C6: a tag spec that carries the id of an existing Tag row resolves to the
\* row of that id, whatever name it submits: the row is in the product's
\* resulting association, and a request whose specs all carry existing ids
\* creates no Tag row.
C6_ExistingIdResolvesToThatRow ==
    (Succeeded /\ req.body.has_tags
       /\ \A i \in 1..Len(SubmittedTags) : SubmittedTags[i].pk \in TagPkSet(pre.tags))
    => /\ Len(tags) = Len(pre.tags)
       /\ \A i \in FirstOfName : SubmittedTags[i].pk \in TagsOf(DB, resp.pk)

\* C7: after a successful PATCH that carries option_set, no option that the
\* product owned and that the option_set does not name by id exists any
\* longer; option_set: [] leaves the product without options.
C7_OmittedOptionsDeleted ==
    (Succeeded /\ req.method = "PATCH" /\ req.body.has_options) =>
        /\ \A o \in OptionsOf(pre, req.pk) :
              o \notin SubmittedPks(SubmittedOptions) => ~OptionExists(options, o)
        /\ SubmittedOptions = <<>> => OptionsOf(DB, req.pk) = {}

C7_Witness ==
    /\ Succeeded /\ req.method = "PATCH" /\ req.body.has_options
    /\ SubmittedOptions # <<>>
    /\ OptionsOf(pre, req.pk) \ SubmittedPks(SubmittedOptions) # {}
    /\ OptionsOf(pre, req.pk) \cap SubmittedPks(SubmittedOptions) # {}

\* The option specs of the last request that name no option the product owned.
SpecsOfNoOwnedOption ==
    {i \in 1..Len(SubmittedOptions) : SubmittedOptions[i].pk \notin OptionsOf(pre, req.pk)}

\* The option rows the last request inserted.
NewOptions == {o \in 1..Len(options) : o > Len(pre.options)}

\* C8: in a successful PATCH with option_set, a spec whose id is that of an
\* option the product owns updates that row in place (same id, submitted
\* trimmed name and price), and every spec without id, or whose id is that of
\* no option the product owns, creates a new option owned by the product.
C8_UpdateInPlaceOrCreate ==
    (Succeeded /\ req.method = "PATCH" /\ req.body.has_options) =>
        /\ \A o \in OptionsOf(pre, req.pk) \cap SubmittedPks(SubmittedOptions) :
              /\ o \in OptionsOf(DB, req.pk)
              /\ \E i \in 1..Len(SubmittedOptions) :
                    /\ SubmittedOptions[i].pk = o
                    /\ options[o].name = Strip(SubmittedOptions[i].name)
                    /\ options[o].price = SubmittedOptions[i].price
        /\ Cardinality(NewOptions) = Cardinality(SpecsOfNoOwnedOption)
        /\ NewOptions \subseteq OptionsOf(DB, req.pk)
        /\ OptionsOf(DB, req.pk) =
              NewOptions \cup (OptionsOf(pre, req.pk) \cap SubmittedPks(SubmittedOptions))

\* C9: a successful PATCH without option_set leaves the options as they were,
\* one without tag_set leaves the tag associations as they were, and the
\* product's name changes only to a submitted name.
C9_AbsentFieldsUntouched ==
    (Succeeded /\ req.method = "PATCH") =>
        /\ ~req.body.has_options => options = pre.options
        /\ ~req.body.has_tags => (product_tags = pre.product_tags /\ tags = pre.tags)
        /\ products = [pre.products EXCEPT ![req.pk].name =
                          IF req.body.name = Absent THEN @ ELSE req.body.name]

C9_Witness ==
    /\ Succeeded /\ req.method = "PATCH"
    /\ ~req.body.has_options /\ ~req.body.has_tags
    /\ req.body.name # Absent /\ req.body.name # pre.products[req.pk].name
    /\ OptionsOf(pre, req.pk) # {} /\ TagsOf(pre, req.pk) # {}

\* C10: after a successful create or update that carries tag_set, the
\* product's tag association is exactly the Tag rows the submitted specs
\* resolved to, one per submitted name: a tag associated before and not
\* among them is no longer associated, and tag_set: [] leaves none.
C10_AssociationReplaced ==
    (Succeeded /\ req.body.has_tags) =>
        /\ TagsOf(DB, resp.pk) =
              {pk \in TagPkSet(tags) :
                  \E i \in 1..Len(SubmittedTags) : tags[pk] = SubmittedTags[i].name}
        /\ Cardinality(TagsOf(DB, resp.pk)) = Cardinality(FirstOfName)

C10_Witness ==
    /\ Succeeded /\ req.method = "PATCH" /\ req.body.has_tags
    /\ TagsOf(pre, req.pk) \ TagsOf(DB, req.pk) # {}
    /\ TagsOf(DB, req.pk) # {}

\* C11: no request deletes a Tag row: the Tag rows a request met are all
\* still there after it, with their names, also after a product's deletion
\* and after its associations were cleared or replaced.
C11_TagRowsPersist ==
    /\ TagPkSet(pre.tags) \subseteq TagPkSet(tags)
    /\ \A pk \in TagPkSet(pre.tags) : tags[pk] = pre.tags[pk]

\* A second request dropped every association of a product that a tag of an
\* earlier request's making was associated with.
C11_Witness ==
    /\ nreq = 2
    /\ req.method \in {"DELETE", "PATCH"} /\ resp.status \in {200, 204}
    /\ Len(pre.tags) = 2
    /\ 2 \in TagsOf(pre, req.pk)
    /\ TagsOf(DB, req.pk) = {}

\* C12: every option belongs to a product that exists and every association
\* row to a product that exists; DELETE removes the product with its options
\* and its associations, and DELETE of a missing product answers 404 and
\* changes nothing.
C12_OptionsBelongToProducts ==
    /\ \A o \in 1..Len(options) : options[o].alive => ProductExists(DB, options[o].product)
    /\ \A row \in product_tags : ProductExists(DB, row[1])
    /\ req.method = "DELETE" =>
          IF ProductExists(pre, req.pk)
          THEN /\ resp.status = 204
               /\ ~ProductExists(DB, req.pk)
               /\ OptionsOf(DB, req.pk) = {}
               /\ TagsOf(DB, req.pk) = {}
               /\ \A o \in OptionsOf(pre, req.pk) : ~OptionExists(options, o)
          ELSE resp.status = 404 /\ DB = pre

C12_Witness ==
    /\ req.method = "DELETE" /\ resp.status = 204
    /\ OptionsOf(pre, req.pk) # {}
    /\ TagsOf(pre, req.pk) # {}

\* C13: after a successful create, the created product has as many options
\* as the payload has option specs, and each of them bears the trimmed name
\* of a submitted spec.
C13_CreateOptionCount ==
    (Succeeded /\ req.method = "POST") =>
        /\ Cardinality(OptionsOf(DB, resp.pk)) = Len(SubmittedOptions)
        /\ \A o \in OptionsOf(DB, resp.pk) :
              \E i \in 1..Len(SubmittedOptions) :
                  options[o].name = Strip(SubmittedOptions[i].name)

\* The names of the Tag rows a worker's request inserted.
CreatedNames(p) == {tags[pk] : pk \in procs[p].created}

\* C14: two create/update requests handled at once can both insert a Tag row
\* of the same new name: every insert that follows a lookup that found
\* nothing adds a row of its own, whatever the other request has inserted
\* since, so a name both requests missed is borne by two rows; rows of one
\* name are always rows of different requests.
C14_EachMissInserts ==
    /\ \A p \in Procs :
          /\ procs[p].created \subseteq TagPkSet(tags) \ TagPkSet(pre.tags)
          /\ Cardinality(CreatedNames(p)) = Cardinality(procs[p].created)
    /\ \A p, q \in Procs : p # q => procs[p].created \cap procs[q].created = {}
    /\ Len(tags) = Len(pre.tags)
                     + Cardinality(UNION {procs[p].created : p \in Procs})
    /\ \A p, q \in Procs : \A n \in CreatedNames(p) \cap CreatedNames(q) :
          p # q => Cardinality(TagsNamed(tags, n)) = 2
    /\ \A i, j \in TagPkSet(tags) :
          (i # j /\ tags[i] = tags[j]) =>
              \E p, q \in Procs : p # q /\ i \in procs[p].created
                                        /\ j \in procs[q].created

\* Both requests were answered with success and left two Tag rows "Y".
C14_Witness ==
    /\ \A p \in Procs : procs[p].phase = "done" /\ procs[p].status = 200
    /\ \E i, j \in TagPkSet(tags) : i # j /\ tags[i] = "Y" /\ tags[j] = "Y"

====
